---- MODULE Spec2Model ----
(***************************************************************************)
(* Model of web_infrastructure/zanata.py: one invocation of the module.    *)
(*                                                                         *)
(* A Python str is a sequence of pieces.  Strings whose content the code   *)
(* inspects (the url parameter, the response body) are split into single   *)
(* characters; literals and identifiers that are only concatenated are one *)
(* piece each.  None is the empty set and a present value v is {v}.        *)
(***************************************************************************)
EXTENDS Integers, Sequences, FiniteSets, TLC

VARIABLES
    pc,             \* position of main(): start, validated, fetch, response, done
    command,        \* module.params['operation']
    params,         \* module.params (without operation)
    missing,        \* main's local list `missing`
    requests,       \* the calls of fetch_url made so far, in order
    info,           \* what fetch_url returned: status, msg and the body
    bodyRead,       \* response.read() was called
    jsonDecoded,    \* json.loads was called
    server_return,  \* main's local `server_return`
    results         \* the fail_json / exit_json reports made so far, in order

vars == << pc, command, params, missing, requests, info, bodyRead,
           jsonDecoded, server_return, results >>

-----------------------------------------------------------------------------
(* Bounds of the input space                                               *)

MaxTrailingSlashes == 2

-----------------------------------------------------------------------------
(* Python values                                                           *)

None == {}
Some(v) == {v}
Get(o) == CHOOSE v \in o : TRUE

\* `if x` / `not x` for a parameter that is None or a str
Truthy(o) == o # {} /\ o # {<<>>}

\* Tagged values: None, a bool, a str, an int, a dict
PyNone == [t |-> "None", s |-> <<>>, n |-> 0, m |-> {}]
PyStr(x) == [t |-> "str", s |-> x, n |-> 0, m |-> {}]
PyInt(x) == [t |-> "int", s |-> <<>>, n |-> x, m |-> {}]
PyDict(x) == [t |-> "dict", s |-> <<>>, n |-> 0, m |-> x]
PyBool(x) == [t |-> "bool", s |-> <<>>, n |-> IF x THEN 1 ELSE 0, m |-> {}]

PyTruth(v) ==
    CASE v.t = "None" -> FALSE
      [] v.t = "str"  -> v.s # <<>>
      [] v.t = "int"  -> v.n # 0
      [] v.t = "bool" -> v.n # 0
      [] v.t = "dict" -> v.m # {}

-----------------------------------------------------------------------------
(* Declarations of the module                                              *)

OPERATIONS ==
    {"create_project", "create_version", "detail", "modify", "stats", "config"}

PARAM_NAMES ==
    {"url", "project_id", "project_name", "username", "token",
     "description", "type", "version"}

PARAMS_REQUIRED ==
    [c \in OPERATIONS |->
        CASE c = "create_project" ->
                <<"url", "project_id", "project_name", "username",
                  "token", "description", "type">>
          [] c = "create_version" ->
                <<"url", "project_id", "version", "username", "token">>
          [] c = "detail" -> <<"url", "project_id">>
          [] c = "modify" ->
                <<"url", "project_id", "project_name", "username", "token",
                  "description", "type">>
          [] c = "stats" -> <<"url", "project_id", "version">>
          [] c = "config" -> <<"url", "project_id", "version">>]

-----------------------------------------------------------------------------
(* String helpers                                                          *)

RECURSIVE Join(_, _)
\* sep.join(names), every name one piece
Join(sep, names) ==
    IF names = <<>> THEN <<>>
    ELSE IF Len(names) = 1 THEN <<names[1]>>
    ELSE <<names[1]>> \o sep \o Join(sep, Tail(names))

EndsWithSlash(u) == Len(u) > 0 /\ u[Len(u)] = "/"

RECURSIVE Slashes(_)
Slashes(k) == IF k = 0 THEN <<>> ELSE <<"/">> \o Slashes(k - 1)

Range(s) == {s[i] : i \in 1..Len(s)}

-----------------------------------------------------------------------------
(* json: the texts the model feeds are numbers without sign, objects with  *)
(* at most one member "key":number, and texts that are no JSON at all      *)

DIGITS == <<"0", "1", "2", "3", "4", "5", "6", "7", "8", "9">>

DigitVal(c) == (CHOOSE i \in 1..Len(DIGITS) : DIGITS[i] = c) - 1

IsNumber(x) ==
    /\ Len(x) > 0
    /\ \A i \in 1..Len(x) : x[i] \in Range(DIGITS)
    /\ (Len(x) = 1 \/ x[1] # "0")

RECURSIVE NumVal(_)
NumVal(x) ==
    IF x = <<>> THEN 0
    ELSE 10 * NumVal(SubSeq(x, 1, Len(x) - 1)) + DigitVal(x[Len(x)])

\* x is "key":number ; k is the index of the quote closing the key
IsMember(x, k) ==
    /\ 2 <= k /\ k + 2 <= Len(x)
    /\ x[1] = "\"" /\ x[k] = "\"" /\ x[k + 1] = ":"
    /\ \A i \in 2..(k - 1) : x[i] # "\""
    /\ IsNumber(SubSeq(x, k + 2, Len(x)))

IsObject(x) ==
    /\ Len(x) >= 2 /\ x[1] = "{" /\ x[Len(x)] = "}"
    /\ \/ Len(x) = 2
       \/ \E k \in 1..Len(x) : IsMember(SubSeq(x, 2, Len(x) - 1), k)

ObjectVal(x) ==
    IF Len(x) = 2 THEN {}
    ELSE LET inner == SubSeq(x, 2, Len(x) - 1)
             k == CHOOSE k \in 1..Len(inner) : IsMember(inner, k)
         IN  {<<SubSeq(inner, 2, k - 1),
                NumVal(SubSeq(inner, k + 2, Len(inner)))>>}

\* json.loads(body): the decoded value, or the ValueError it raises
JsonLoads(body) ==
    IF IsNumber(body) THEN [ok |-> TRUE, val |-> PyInt(NumVal(body))]
    ELSE IF IsObject(body) THEN [ok |-> TRUE, val |-> PyDict(ObjectVal(body))]
    ELSE [ok |-> FALSE, val |-> PyStr(<<"No JSON object could be decoded">>)]

\* json.dumps(data) of a dict of str values, given as <<key, value>> pairs
JsonDumps(pairs) ==
    <<"{">>
    \o Join(<<", ">>,
            [i \in 1..Len(pairs) |->
                <<"\"", pairs[i][1], "\": \"">> \o pairs[i][2] \o <<"\"">>])
    \o <<"}">>

-----------------------------------------------------------------------------
(* rest_call                                                               *)

\* lines 160-167 and 172-173: the headers of the request
RestHeaders(user, token, op) ==
    [Accept |-> IF op = "config" THEN "application/xml"
                ELSE "application/json",
     ContentType |-> "application/json",
     XAuthUser |-> IF Truthy(user) /\ Truthy(token) THEN user ELSE None,
     XAuthToken |-> IF Truthy(user) /\ Truthy(token) THEN token ELSE None]

\* lines 159-177: the request handed to fetch_url
RestRequest(call) ==
    [url |-> call.url,
     data |-> IF Truthy(call.data) THEN Some(JsonDumps(Get(call.data)))
              ELSE call.data,
     method |-> call.method,
     headers |-> RestHeaders(call.user, call.token, call.op)]

\* Mutant: 204 is left out of the statuses that do not fail
StatusAccepted_No204(status) == status \in {200, 201}

\* Mutant: only a transport failure (a negative status) fails
StatusAccepted_AnyAnswer(status) == status >= 0

\* line 179, negated: the statuses rest_call does not fail on
StatusAccepted(status) == status \in {200, 201, 204}

\* lines 181-184: the message returned without reading the body, if any
SuccessMessage(status, op) ==
    IF status = 201 /\ op = "create" THEN Some(<<"Creation successful!">>)
    ELSE IF status = 200 /\ op = "modify"
    THEN Some(<<"Modification successful!">>)
    ELSE None

\* Mutant: the body is decoded without looking whether it is empty
DecodeBody_NoEmptyCheck(body, op) ==
    IF body # <<>> /\ op = "config"
    THEN [kind |-> "return", val |-> PyStr(body),
          read |-> TRUE, decoded |-> FALSE]
    ELSE Get({[kind |-> IF j.ok THEN "return" ELSE "raise", val |-> j.val,
               read |-> TRUE, decoded |-> TRUE] : j \in {JsonLoads(body)}})

\* lines 186-193: the body is read and a value made of it
DecodeBody(body, op) ==
    IF body # <<>> /\ op = "config"
    THEN [kind |-> "return", val |-> PyStr(body),
          read |-> TRUE, decoded |-> FALSE]
    ELSE IF body # <<>>
    THEN Get({[kind |-> IF j.ok THEN "return" ELSE "raise", val |-> j.val,
               read |-> TRUE, decoded |-> TRUE] : j \in {JsonLoads(body)}})
    ELSE [kind |-> "return", val |-> PyDict({}),
          read |-> TRUE, decoded |-> FALSE]

\* lines 179-193: what rest_call does with the answer of fetch_url
RestResult(status, msg, body, op) ==
    IF ~StatusAccepted(status)
    THEN [kind |-> "fail_json", val |-> PyStr(msg),
          read |-> FALSE, decoded |-> FALSE]
    ELSE IF SuccessMessage(status, op) # None
    THEN [kind |-> "return", val |-> PyStr(Get(SuccessMessage(status, op))),
          read |-> FALSE, decoded |-> FALSE]
    ELSE DecodeBody(body, op)

-----------------------------------------------------------------------------
(* The operations: each builds one call of rest_call                       *)

RestCall(url, user, token, data, method, op) ==
    [url |-> url, user |-> user, token |-> token, data |-> data,
     method |-> method, op |-> op]

create_project(base_url, p, op_modify) ==
    RestCall(base_url \o <<"/projects/p/">> \o Get(p["project_id"]),
             p["username"], p["token"],
             Some(<< <<"name", Get(p["project_name"])>>,
                     <<"id", Get(p["project_id"])>>,
                     <<"description", Get(p["description"])>>,
                     <<"type", Get(p["type"])>> >>),
             "PUT", IF op_modify THEN "modify" ELSE "create")

modify(base_url, p) == create_project(base_url, p, TRUE)

create_version(base_url, p) ==
    RestCall(base_url \o <<"/project/">> \o Get(p["project_id"])
                      \o <<"/version/">> \o Get(p["version"]),
             p["username"], p["token"],
             Some(<< <<"id", Get(p["version"])>> >>),
             "PUT", "create")

\* Mutant: stats passes the credentials on, as the creating operations do
stats_WithCredentials(base_url, p) ==
    RestCall(base_url \o <<"/stats/proj/">> \o Get(p["project_id"])
                      \o <<"/iter/">> \o Get(p["version"]),
             p["username"], p["token"], None, "GET", "None")

stats(base_url, p) ==
    RestCall(base_url \o <<"/stats/proj/">> \o Get(p["project_id"])
                      \o <<"/iter/">> \o Get(p["version"]),
             None, None, None, "GET", "None")

\* Mutant: detail sends the method of create_project, whose path it shares
detail_Put(base_url, p) ==
    RestCall(base_url \o <<"/projects/p/">> \o Get(p["project_id"]),
             None, None, None, "PUT", "None")

detail(base_url, p) ==
    RestCall(base_url \o <<"/projects/p/">> \o Get(p["project_id"]),
             None, None, None, "GET", "None")

\* Mutant: config calls rest_call without op='config'
config_NoOp(base_url, p) ==
    RestCall(base_url \o <<"/project/">> \o Get(p["project_id"])
                      \o <<"/version/">> \o Get(p["version"])
                      \o <<"/config">>,
             None, None, None, "GET", "None")

config(base_url, p) ==
    RestCall(base_url \o <<"/project/">> \o Get(p["project_id"])
                      \o <<"/version/">> \o Get(p["version"])
                      \o <<"/config">>,
             None, None, None, "GET", "config")

\* what the operation hands back to main of the value rest_call returned:
\* modify calls create_project without returning its value
OpReturn(c, value) == IF c = "modify" THEN PyNone ELSE value

-----------------------------------------------------------------------------
(* main                                                                    *)

\* getattr(this_module, command)(base_url, module.params)
OpCall(c, base_url, p) ==
    CASE c = "create_project" -> create_project(base_url, p, FALSE)
      [] c = "modify" -> modify(base_url, p)
      [] c = "create_version" -> create_version(base_url, p)
      [] c = "stats" -> stats(base_url, p)
      [] c = "detail" -> detail(base_url, p)
      [] c = "config" -> config(base_url, p)

\* Mutant: the loop stops at the first missing parameter
Missing_FirstOnly(c, p) ==
    LET all == SelectSeq(PARAMS_REQUIRED[c], LAMBDA name : ~Truthy(p[name]))
    IN  IF all = <<>> THEN <<>> ELSE <<all[1]>>

\* lines 291-294
Missing(c, p) ==
    SelectSeq(PARAMS_REQUIRED[c], LAMBDA name : ~Truthy(p[name]))

\* line 297
MissingMsg(c, names) ==
    <<"[ ", c, " ] operation requires: ">> \o Join(<<", ">>, names)

\* Mutant: the separator is added without looking at the end of the url
BaseUrl_AlwaysSlash(url) == url \o <<"/">> \o <<"rest">>

\* lines 300-303
BaseUrl(url) ==
    (IF ~EndsWithSlash(url) THEN url \o <<"/">> ELSE url) \o <<"rest">>

\* Mutant: changed is set for every command
prepare_exit_json_AlwaysChanged(c, value) ==
    LET keys == {"changed"} \cup (IF PyTruth(value) THEN {"msg"} ELSE {})
    IN  [k \in keys |-> IF k = "changed" THEN PyBool(TRUE) ELSE value]

\* A dict of keyword arguments is a function on the keys it holds
prepare_exit_json(c, value) ==
    LET keys ==
          (IF c \in {"create_project", "create_version", "modify"}
           THEN {"changed"} ELSE {})
          \cup (IF PyTruth(value) THEN {"msg"} ELSE {})
    IN  [k \in keys |-> IF k = "changed" THEN PyBool(TRUE) ELSE value]

\* module.fail_json(msg=msg) and module.exit_json(**d): the report made to
\* the caller; either ends the process (SystemExit passes `except Exception`)
FailJson(msg) == [kind |-> "fail_json", args |-> [k \in {"msg"} |-> msg]]

ExitJson(d) == [kind |-> "exit_json", args |-> d]

-----------------------------------------------------------------------------
(* Inputs                                                                  *)

EXAMPLE_URL ==
    <<"h", "t", "t", "p", "s", ":", "/", "/", "x", "/",
      "z", "a", "n", "a", "t", "a">>

Urls ==
    {prefix \o Slashes(k) :
        prefix \in {<<>>, EXAMPLE_URL}, k \in 0..MaxTrailingSlashes}

\* a parameter without default: None, the empty str or a value
OptionalOf(v) == {None, Some(<<>>), Some(v)}

\* a parameter without default: None or a value
PresentOrNot(v) == {None, Some(v)}

Statuses == {200, 201, 204, 404, -1}

InfoMsgs == {<<"HTTP Error 404: Not Found">>, <<"OK (13 bytes)">>}

Bodies ==
    {<<>>,
     <<"{", "\"", "t", "o", "t", "a", "l", "\"", ":", "1", "0", "0", "}">>,
     <<"{", "}">>,
     <<"0">>,
     <<"<", "c", "/", ">">>}

NoInfo == [status |-> 0, msg |-> <<>>, body |-> <<>>]

-----------------------------------------------------------------------------
(* The invocation                                                          *)

Init ==
    /\ pc = "start"
    /\ command \in OPERATIONS
    /\ \E url \in Urls,
          project_id \in {<<>>, <<"ZNTAPRJID">>},
          project_name \in PresentOrNot(<<"n">>),
          username \in OptionalOf(<<"u">>),
          token \in OptionalOf(<<"t">>),
          description \in PresentOrNot(<<"d">>),
          type \in {<<"file">>, <<"gettext">>},
          version \in OptionalOf(<<"ZNTAPRJVER">>) :
            params = [name \in PARAM_NAMES |->
                CASE name = "url" -> Some(url)
                  [] name = "project_id" -> Some(project_id)
                  [] name = "project_name" -> project_name
                  [] name = "username" -> username
                  [] name = "token" -> token
                  [] name = "description" -> description
                  [] name = "type" -> Some(type)
                  [] name = "version" -> version]
    /\ missing = <<>>
    /\ requests = <<>>
    /\ info = NoInfo
    /\ bodyRead = FALSE
    /\ jsonDecoded = FALSE
    /\ server_return = PyNone
    /\ results = <<>>

\* main, lines 288-298: the required parameters of the command
Validate ==
    /\ pc = "start"
    /\ missing' = Missing(command, params)
    /\ IF missing' # <<>>
       THEN /\ results' =
                 Append(results,
                        FailJson(PyStr(MissingMsg(command, missing'))))
            /\ pc' = "done"
       ELSE /\ results' = results
            /\ pc' = "validated"
    /\ UNCHANGED << command, params, requests, info, bodyRead, jsonDecoded,
                    server_return >>

\* main, lines 300-309, into rest_call up to the call of fetch_url
Dispatch ==
    /\ pc = "validated"
    /\ requests' =
         Append(requests,
                RestRequest(OpCall(command, BaseUrl(Get(params["url"])),
                                   params)))
    /\ pc' = "fetch"
    /\ UNCHANGED << command, params, missing, info, bodyRead, jsonDecoded,
                    server_return, results >>

\* fetch_url returns: any status, message and body
FetchUrl ==
    /\ pc = "fetch"
    /\ \E status \in Statuses, msg \in InfoMsgs, body \in Bodies :
         info' = [status |-> status, msg |-> msg, body |-> body]
    /\ pc' = "response"
    /\ UNCHANGED << command, params, missing, requests, bodyRead,
                    jsonDecoded, server_return, results >>

\* rest_call, lines 179-193, then main, lines 309-315
Interpret ==
    /\ pc = "response"
    /\ \E r \in {RestResult(info.status, info.msg, info.body,
                            OpCall(command, BaseUrl(Get(params["url"])),
                                   params).op)} :
         /\ bodyRead' = r.read
         /\ jsonDecoded' = r.decoded
         /\ IF r.kind = "return"
            THEN /\ server_return' = OpReturn(command, r.val)
                 /\ results' =
                      Append(results,
                             ExitJson(prepare_exit_json(
                                 command, OpReturn(command, r.val))))
            ELSE /\ server_return' = server_return
                 /\ results' = Append(results, FailJson(r.val))
    /\ pc' = "done"
    /\ UNCHANGED << command, params, missing, requests, info >>

Next == Validate \/ Dispatch \/ FetchUrl \/ Interpret

Spec == Init /\ [][Next]_vars

-----------------------------------------------------------------------------
(* Vocabulary of the properties                                            *)

MUTATING == {"create_project", "create_version", "modify"}

READING == {"detail", "stats", "config"}

Done == pc = "done"

Requested == requests # <<>>

Exited == Done /\ Len(results) = 1 /\ results[1].kind = "exit_json"

Failed == Done /\ Len(results) = 1 /\ results[1].kind = "fail_json"

\* the required parameters of the command that are absent or empty
AbsentRequired ==
    {name \in Range(PARAMS_REQUIRED[command]) :
        params[name] = None \/ params[name] = Some(<<>>)}

\* s is "[ <command> ] operation requires: " followed by anything
IsValidationMsg(s) ==
    /\ Len(s) >= 3
    /\ SubSeq(s, 1, 3) = <<"[ ", command, " ] operation requires: ">>

\* the names listed in a validation message, which separates them by ", "
ListedNames(s) == {s[i] : i \in {j \in 4..Len(s) : (j - 4) % 2 = 0}}

WellSeparated(s) == \A i \in 4..Len(s) : (i - 4) % 2 = 1 => s[i] = ", "

TOTAL_BODY ==
    <<"{", "\"", "t", "o", "t", "a", "l", "\"", ":", "1", "0", "0", "}">>

TOTAL_VALUE == PyDict({<< <<"t", "o", "t", "a", "l">>, 100 >>})

-----------------------------------------------------------------------------
\* C1: once validation has run, if a required parameter of the command is
\* absent or empty the invocation has ended in one failure whose message
\* lists exactly the missing required names, each once, and no request was
\* made; if none is missing, no report is a validation failure.
C1_Validation ==
    pc # "start" =>
        IF AbsentRequired # {}
        THEN /\ Failed
             /\ requests = <<>>
             /\ LET s == results[1].args["msg"].s
                IN  /\ IsValidationMsg(s)
                    /\ WellSeparated(s)
                    /\ ListedNames(s) = AbsentRequired
                    /\ Len(s) = 3 + 2 * Cardinality(AbsentRequired) - 1
        ELSE \A i \in 1..Len(results) :
                ~(/\ results[i].kind = "fail_json"
                  /\ IsValidationMsg(results[i].args["msg"].s))

\* C1 witness: create_version without version, username and token has failed
C1_Witness ==
    /\ Failed
    /\ command = "create_version"
    /\ AbsentRequired = {"version", "username", "token"}
    /\ requests = <<>>

\* C2: a mutating operation answered with its success status reports
\* changed = true and its success message under msg.
C2_SuccessMessage ==
    (/\ Done /\ Requested /\ command \in MUTATING
     /\ info.status = (IF command = "modify" THEN 200 ELSE 201))
    => /\ Exited
       /\ DOMAIN results[1].args = {"changed", "msg"}
       /\ results[1].args["changed"] = PyBool(TRUE)
       /\ results[1].args["msg"] =
            PyStr(IF command = "modify" THEN <<"Modification successful!">>
                  ELSE <<"Creation successful!">>)

\* C3 as stated: a successful read operation reports changed not true and
\* the fetched data under a data field, not under msg.
C3_DataField ==
    (Exited /\ command \in READING)
    => /\ ("changed" \in DOMAIN results[1].args
            => results[1].args["changed"] = PyBool(FALSE))
       /\ "msg" \notin DOMAIN results[1].args
       /\ "data" \in DOMAIN results[1].args
       /\ results[1].args["data"] = server_return

\* C3 amended: a successful read operation reports a result without a
\* changed key and without a data key; the fetched value is reported under
\* msg when it is truthy and not reported at all when it is empty or zero.
\* stats or detail answered 200 with body {"total":100} report
\* {msg: {"total": 100}}.
C3_ReadUnderMsg ==
    (Exited /\ command \in READING)
    => /\ DOMAIN results[1].args \subseteq {"msg"}
       /\ (info.body # <<>> /\ command = "config")
            => results[1].args = [k \in {"msg"} |-> PyStr(info.body)]
       /\ (info.body = TOTAL_BODY /\ command # "config")
            => results[1].args = [k \in {"msg"} |-> TOTAL_VALUE]
       /\ (info.body \in {<<>>, <<"{", "}">>, <<"0">>} /\ command # "config")
            => DOMAIN results[1].args = {}
       /\ info.body = <<>> => DOMAIN results[1].args = {}

\* C3 witness: stats answered 200 with body {"total":100} has exited
C3_Witness ==
    /\ Exited
    /\ command = "stats"
    /\ info.status = 200
    /\ info.body = TOTAL_BODY
    /\ results[1].args["msg"] = TOTAL_VALUE

\* C4 as stated: every status outside the set accepted for the operation
\* (201 for the creates, 200 for modify, 200 and 204 for the reads) ends in
\* a failure carrying the server's message, never in a success.
C4_AcceptedPerOperation ==
    LET accepted ==
          IF command \in {"create_project", "create_version"} THEN {201}
          ELSE IF command = "modify" THEN {200}
          ELSE {200, 204}
    IN  (Done /\ Requested /\ info.status \notin accepted)
        => /\ Failed
           /\ results[1].args["msg"] = PyStr(info.msg)

\* C4 amended: whatever the operation, the invocation ends in success only
\* if the status is 200, 201 or 204, and every other status ends in a
\* failure carrying the server's message; a status of 200, 201 or 204 with
\* an empty or decodable body ends in success for every operation.
C4_AcceptedStatuses ==
    (Done /\ Requested)
    => /\ Exited => info.status \in {200, 201, 204}
       /\ info.status \notin {200, 201, 204}
            => (Failed /\ results[1].args["msg"] = PyStr(info.msg))
       /\ (/\ info.status \in {200, 201, 204}
           /\ info.body \in {<<>>, TOTAL_BODY, <<"{", "}">>, <<"0">>})
            => Exited

\* C4 witness: create_project answered 200 has ended in success
C4_Witness ==
    /\ Exited
    /\ command = "create_project"
    /\ info.status = 200
    /\ "changed" \in DOMAIN results[1].args

\* C5: a status other than 200, 201 and 204 ends the invocation in one
\* failure whose message is the message that came with the response; the
\* body was neither read nor decoded and nothing was returned to main.
C5_RemoteError ==
    (Done /\ Requested /\ info.status \notin {200, 201, 204})
    => /\ results = <<[kind |-> "fail_json",
                       args |-> [k \in {"msg"} |-> PyStr(info.msg)]]>>
       /\ ~bodyRead
       /\ ~jsonDecoded
       /\ server_return = PyNone

\* C5 witness: detail answered 404 with a JSON body has failed
C5_Witness ==
    /\ Failed
    /\ command = "detail"
    /\ info.status = 404
    /\ info.body = TOTAL_BODY

\* C6 as stated: for every operation the request carries X-Auth-User and
\* X-Auth-Token, with the supplied values, exactly when username and token
\* are both supplied non-empty.
C6_AuthWhenSupplied ==
    Requested =>
        IF Truthy(params["username"]) /\ Truthy(params["token"])
        THEN /\ requests[1].headers.XAuthUser = params["username"]
             /\ requests[1].headers.XAuthToken = params["token"]
        ELSE /\ requests[1].headers.XAuthUser = None
             /\ requests[1].headers.XAuthToken = None

\* C6 amended: the request carries X-Auth-User and X-Auth-Token exactly when
\* the operation is create_project, modify or create_version, and then with
\* the supplied username and token, both non-empty; the request of detail,
\* stats and config carries neither, whatever was supplied.
C6_AuthForMutating ==
    Requested =>
        IF command \in MUTATING
        THEN /\ Truthy(params["username"]) /\ Truthy(params["token"])
             /\ requests[1].headers.XAuthUser = params["username"]
             /\ requests[1].headers.XAuthToken = params["token"]
        ELSE /\ requests[1].headers.XAuthUser = None
             /\ requests[1].headers.XAuthToken = None

\* C6 witness: stats with username and token supplied sent no credentials
C6_Witness ==
    /\ Requested
    /\ command = "stats"
    /\ params["username"] = Some(<<"u">>)
    /\ params["token"] = Some(<<"t">>)
    /\ requests[1].headers.XAuthUser = None

\* C7: Accept is application/xml exactly for config and application/json
\* otherwise, Content-Type is always application/json; config answered 200
\* or 204 with a non-empty body reports that body unchanged and undecoded;
\* detail and stats decode a non-empty body.
C7_AcceptAndRawConfig ==
    /\ Requested
        => /\ requests[1].headers.Accept =
                (IF command = "config" THEN "application/xml"
                 ELSE "application/json")
           /\ requests[1].headers.ContentType = "application/json"
    /\ (Done /\ Requested /\ info.status \in {200, 204} /\ info.body # <<>>)
        => /\ command = "config"
                => /\ Exited
                   /\ server_return = PyStr(info.body)
                   /\ results[1].args = [k \in {"msg"} |-> PyStr(info.body)]
                   /\ ~jsonDecoded
           /\ command \in {"detail", "stats"}
                => /\ jsonDecoded
                   /\ info.body = TOTAL_BODY => server_return = TOTAL_VALUE

\* C7 witness: config answered 200 with an XML body reported it raw
C7_Witness ==
    /\ Exited
    /\ command = "config"
    /\ info.status = 200
    /\ info.body = <<"<", "c", "/", ">">>
    /\ requests[1].headers.Accept = "application/xml"
    /\ server_return = PyStr(<<"<", "c", "/", ">">>)

\* C8: at most one request and one report are ever made; an invocation that
\* is not over has reported nothing and can take its next step (validate,
\* dispatch, receive the answer, interpret it); one that is over
\* made exactly one report, a success or a failure with a message, and made
\* one request with the method of the operation if no required parameter
\* was missing and none otherwise.
C8_OneRequestOneResult ==
    /\ Len(requests) <= 1
    /\ Len(results) <= 1
    /\ ~Done => results = <<>>
    /\ pc \in {"start", "validated", "fetch", "response", "done"}
    /\ pc = "start" => ENABLED Validate
    /\ pc = "validated" => ENABLED Dispatch
    /\ pc = "fetch" => ENABLED FetchUrl
    /\ pc = "response" => ENABLED Interpret
    /\ AbsentRequired # {} => requests = <<>>
    /\ Requested
        => requests[1].method =
             (IF command \in MUTATING THEN "PUT" ELSE "GET")
    /\ Done
        => /\ Len(results) = 1
           /\ Len(requests) = (IF AbsentRequired = {} THEN 1 ELSE 0)
           /\ results[1].kind \in {"exit_json", "fail_json"}
           /\ results[1].kind = "fail_json"
                => /\ DOMAIN results[1].args = {"msg"}
                   /\ results[1].args["msg"].t = "str"

\* C8 witness: a validated detail was answered 404 and is over
C8_Witness ==
    /\ Done
    /\ command = "detail"
    /\ Len(requests) = 1
    /\ Len(results) = 1
    /\ info.status = 404

\* the number of '/' a string ends with
RECURSIVE TrailingSlashes(_)
TrailingSlashes(u) ==
    IF EndsWithSlash(u) THEN 1 + TrailingSlashes(SubSeq(u, 1, Len(u) - 1))
    ELSE 0

\* the path of the operation below the API root
PathSuffix ==
    LET pid == Get(params["project_id"])
        ver == Get(params["version"])
    IN  CASE command \in {"create_project", "modify", "detail"} ->
                <<"/projects/p/">> \o pid
          [] command = "create_version" ->
                <<"/project/">> \o pid \o <<"/version/">> \o ver
          [] command = "stats" ->
                <<"/stats/proj/">> \o pid \o <<"/iter/">> \o ver
          [] command = "config" ->
                <<"/project/">> \o pid \o <<"/version/">> \o ver
                \o <<"/config">>

\* the part of the request target before the path of the operation
TargetBase ==
    SubSeq(requests[1].url, 1, Len(requests[1].url) - Len(PathSuffix))

EXAMPLE_TARGET ==
    EXAMPLE_URL
    \o <<"/", "rest", "/stats/proj/", "ZNTAPRJID", "/iter/", "ZNTAPRJVER">>

\* C9 as stated: for a url with any number of trailing '/', the target is a
\* base ending in exactly one '/' followed by 'rest', followed by the path
\* of the operation.
C9_ExactlyOneSeparator ==
    Requested =>
        LET n == Len(TargetBase)
        IN  /\ requests[1].url = TargetBase \o PathSuffix
            /\ n >= 2
            /\ TargetBase[n] = "rest"
            /\ TargetBase[n - 1] = "/"
            /\ n >= 3 => TargetBase[n - 2] # "/"

\* C9 amended: the target is the url, a '/' added if the url has no
\* trailing '/', then 'rest', then the path of the operation; so a url with
\* k trailing '/' gives a base with max(1, k) '/' before 'rest', exactly one
\* when k is 0 or 1.  stats with url https://x/zanata, project ZNTAPRJID,
\* version ZNTAPRJVER targets
\* https://x/zanata/rest/stats/proj/ZNTAPRJID/iter/ZNTAPRJVER.
C9_AtLeastOneSeparator ==
    Requested =>
        LET url == Get(params["url"])
            k == TrailingSlashes(url)
            stem == SubSeq(url, 1, Len(url) - k)
        IN  /\ requests[1].url = TargetBase \o PathSuffix
            /\ TargetBase =
                 stem \o Slashes(IF k = 0 THEN 1 ELSE k) \o <<"rest">>
            /\ k <= 1 => TrailingSlashes(SubSeq(TargetBase, 1,
                                                Len(TargetBase) - 1)) = 1
            /\ (/\ command = "stats"
                /\ url = EXAMPLE_URL)
                 => requests[1].url = EXAMPLE_TARGET

\* C9 witness: the stats request of the example was sent to its target
C9_Witness ==
    /\ Requested
    /\ command = "stats"
    /\ params["url"] = Some(EXAMPLE_URL)
    /\ requests[1].url = EXAMPLE_TARGET

\* C10: a read operation answered 200 or 204 with an empty body ends in
\* success, the value fetched is the empty mapping, and the empty body was
\* not handed to the JSON decoder.
C10_EmptyBody ==
    (/\ Done /\ Requested /\ command \in READING
     /\ info.status \in {200, 204} /\ info.body = <<>>)
    => /\ Exited
       /\ server_return = PyDict({})
       /\ ~jsonDecoded

\* C10 witness: detail answered 204 with an empty body has exited
C10_Witness ==
    /\ Exited
    /\ command = "detail"
    /\ info.status = 204
    /\ info.body = <<>>
    /\ server_return = PyDict({})

====
